---- MODULE Spec2Model ----
(***************************************************************************)
(* Model of icon-generator.py: one process that reads a source image,      *)
(* normalises it to 1024x1024 and fans out to the Linux, Windows and macOS *)
(* generators.  The filesystem (source files, output directory, iconset    *)
(* staging directory) and the process (its position, the pending           *)
(* exception, what it printed, its exit status) are the state.  Library    *)
(* calls that touch the filesystem either take effect or raise.            *)
(***************************************************************************)
EXTENDS Integers, Sequences, FiniteSets, TLC

\* Number of consecutive invocations of the program on the same filesystem.
MaxRuns == 2

\* ---------------------------------------------------------------- config
DEFAULT_SOURCE == "icon.png"

CANON == 1024

ICON_SIZES_linux ==
    << <<32, 32, "32x32.png">>,
       <<128, 128, "128x128.png">>,
       <<256, 256, "128x128@2x.png">>,
       <<256, 256, "256x256.png">>,
       <<512, 512, "512x512.png">> >>

ICON_SIZES_windows ==
    << <<16, 16>>, <<32, 32>>, <<48, 48>>, <<64, 64>>, <<256, 256>> >>

ICON_SIZES_macos ==
    << <<"icon_16x16.png", 16>>,
       <<"icon_16x16@2x.png", 32>>,
       <<"icon_32x32.png", 32>>,
       <<"icon_32x32@2x.png", 64>>,
       <<"icon_128x128.png", 128>>,
       <<"icon_128x128@2x.png", 256>>,
       <<"icon_256x256.png", 256>>,
       <<"icon_256x256@2x.png", 512>>,
       <<"icon_512x512.png", 512>>,
       <<"icon_512x512@2x.png", 1024>> >>

\* ------------------------------------------------------------ the universe
\* Paths a source image may live at, and what the command line may carry.
Paths == {"icon.png", "logo.png"}
NoArg == "<none>"
Args == {NoArg} \cup Paths

\* Widths and heights of the source images tried.
SrcDims == {512, 1024, 2048}

LinuxNames == {ICON_SIZES_linux[i][3] : i \in DOMAIN ICON_SIZES_linux}
MacNames == {ICON_SIZES_macos[i][1] : i \in DOMAIN ICON_SIZES_macos}
Artifacts == LinuxNames \cup {"icon.ico", "icon.icns"}
\* Names in the output directory: the artifacts and one unrelated file.
OutNames == Artifacts \cup {"notes.txt"}
\* Names in the staging directory: the table's and one leftover PNG.
StageNames == MacNames \cup {"extra.png"}

\* ---------------------------------------------------------------- rasters
NoRaster == [src |-> "none", w |-> 0, h |-> 0, hist |-> <<>>]
StaleRaster == [src |-> "stale", w |-> 64, h |-> 64, hist |-> <<>>]

\* Image.resize: a resampling to (w, h); PIL returns a copy when the size
\* already matches.  hist records the resamplings a raster went through.
Resize(img, w, h) ==
    IF img.w = w /\ img.h = h
    THEN img
    ELSE [src |-> img.src, w |-> w, h |-> h, hist |-> Append(img.hist, <<w, h>>)]

\* Image.open(source).convert("RGBA"): the decoded raster of a source file.
Decode(path, file) ==
    [src |-> path, w |-> file.w, h |-> file.h, hist |-> <<>>]

validate_image_WidthOnly(image) ==
    IF image.w # CANON
    THEN [raster |-> Resize(image, CANON, CANON), warned |-> TRUE]
    ELSE [raster |-> image, warned |-> FALSE]

\* validate_image: the raster returned and whether the warning was printed.
validate_image(image) ==
    IF <<image.w, image.h>> # <<CANON, CANON>>
    THEN [raster |-> Resize(image, CANON, CANON), warned |-> TRUE]
    ELSE [raster |-> image, warned |-> FALSE]

\* ------------------------------------------------------------------ files
NoFile == [kind |-> "none", frames |-> <<>>, reps |-> {}]
Png(r) == [kind |-> "png", frames |-> <<r>>, reps |-> {}]
IcoFile(fs) == [kind |-> "ico", frames |-> fs, reps |-> {}]
IcnsFile(rs) == [kind |-> "icns", frames |-> <<>>, reps |-> rs]
OtherFile == [kind |-> "other", frames |-> <<>>, reps |-> {}]

MissingSrc == [exists |-> FALSE, decodable |-> FALSE, w |-> 0, h |-> 0]
CorruptSrc == [exists |-> TRUE, decodable |-> FALSE, w |-> 0, h |-> 0]
ImageSrc(w, h) == [exists |-> TRUE, decodable |-> TRUE, w |-> w, h |-> h]

\* ------------------------------------------------------------- exceptions
NoExc == [type |-> "none", text |-> "", path |-> ""]
Exc(type, text, path) == [type |-> type, text |-> text, path |-> path]
Msg(tag, e) == [tag |-> tag, detail |-> e]

VARIABLES
    srcFs,          \* Paths -> source file
    outDirExists,   \* src-tauri/icons exists
    outFiles,       \* OutNames -> file in the output directory
    iconset,        \* icon.iconset is "absent", a "dir" or a regular "file"
    iconsetFiles,   \* StageNames -> file in the staging directory
    pc,             \* position of the process
    argv,           \* the command-line argument of this invocation
    source_path,    \* generate_icons' parameter
    image,          \* the raster handed to the generators
    exc,            \* the exception in flight
    printed,        \* messages printed by this invocation, in order
    exitCode,       \* -1 while running, then the exit status
    runs,           \* invocations started
    trace,          \* steps started by this invocation, in order
    raisedAt,       \* the step that raised
    written,        \* files written by this invocation
    startFs,        \* the filesystem when this invocation started
    prevOk          \* the previous invocation succeeded

fs == <<outDirExists, outFiles, iconset, iconsetFiles>>
proc == <<pc, argv, source_path, image, exc, printed, exitCode, trace, raisedAt, written>>
history == <<runs, startFs, prevOk>>
vars == <<srcFs, fs, proc, history>>

\* --------------------------------------------------------------- initial
EmptyOut == [n \in OutNames |-> NoFile]
EmptyStage == [n \in StageNames |-> NoFile]
StaleOut ==
    [n \in OutNames |->
        IF n \in LinuxNames THEN Png(StaleRaster)
        ELSE IF n = "icon.ico" THEN IcoFile(<<StaleRaster>>)
        ELSE IF n = "icon.icns" THEN IcnsFile({[file |-> "stale.png", data |-> StaleRaster]})
        ELSE OtherFile]
LeftoverStage == [EmptyStage EXCEPT !["extra.png"] = Png(StaleRaster)]

\* The filesystems the program may be started on.
InitFs ==
    { <<FALSE, EmptyOut, "absent", EmptyStage>>,
      <<TRUE, EmptyOut, "absent", EmptyStage>>,
      <<TRUE, StaleOut, "absent", EmptyStage>>,
      <<TRUE, EmptyOut, "dir", EmptyStage>>,
      <<TRUE, StaleOut, "dir", LeftoverStage>>,
      <<TRUE, EmptyOut, "file", EmptyStage>> }

InitSrc ==
    { [p \in Paths |-> IF p = DEFAULT_SOURCE THEN a ELSE b] :
        a \in {MissingSrc, CorruptSrc} \cup {ImageSrc(w, h) : w \in SrcDims, h \in SrcDims},
        b \in {MissingSrc, ImageSrc(CANON, CANON)} }

Init ==
    /\ srcFs \in InitSrc
    /\ \E f \in InitFs :
        /\ outDirExists = f[1]
        /\ outFiles = f[2]
        /\ iconset = f[3]
        /\ iconsetFiles = f[4]
    /\ pc = "start"
    /\ argv = NoArg
    /\ source_path = ""
    /\ image = NoRaster
    /\ exc = NoExc
    /\ printed = <<>>
    /\ exitCode = -1
    /\ runs = 0
    /\ trace = <<>>
    /\ raisedAt = "none"
    /\ written = {}
    /\ startFs = fs
    /\ prevOk = FALSE

\* ---------------------------------------------------------------- helpers
\* A step raises e: the exception is in flight and control goes to `to`.
Raise(step, e, to) ==
    /\ exc' = e
    /\ raisedAt' = step
    /\ pc' = to

Step(name) == trace' = Append(trace, name)

\* ------------------------------------------------ __main__, generate_icons
\* __main__: generate_icons() is called without arguments, whatever the
\* command line carries.
Main ==
    /\ pc = "start"
    /\ \E a \in Args :
        /\ argv' = a
        /\ source_path' = DEFAULT_SOURCE
    /\ runs' = runs + 1
    /\ pc' = "check"
    /\ Step("main")
    /\ UNCHANGED <<srcFs, fs, image, exc, printed, exitCode, raisedAt, written, startFs, prevOk>>

CheckSource_MkdirFirst ==
    /\ pc = "check"
    /\ Step("check")
    /\ outDirExists' = TRUE
    /\ IF srcFs[source_path].exists
       THEN /\ pc' = "mkdir"
            /\ UNCHANGED <<exc, raisedAt>>
       ELSE Raise("check", Exc("FileNotFoundError", "Source file not found", source_path), "except")
    /\ UNCHANGED <<srcFs, outFiles, iconset, iconsetFiles, argv, source_path, image,
                   printed, exitCode, written, history>>

\* source = Path(source_path); raise FileNotFoundError unless it exists.
CheckSource ==
    /\ pc = "check"
    /\ Step("check")
    /\ IF srcFs[source_path].exists
       THEN /\ pc' = "mkdir"
            /\ UNCHANGED <<exc, raisedAt>>
       ELSE Raise("check", Exc("FileNotFoundError", "Source file not found", source_path), "except")
    /\ UNCHANGED <<srcFs, fs, argv, source_path, image, printed, exitCode, written, history>>

\* OUTPUT_DIR.mkdir(parents=True, exist_ok=True): an existing directory is
\* accepted; creating a missing one may fail.
MkdirOutput ==
    /\ pc = "mkdir"
    /\ Step("mkdir")
    /\ \/ /\ outDirExists' = TRUE
          /\ pc' = "load"
          /\ UNCHANGED <<exc, raisedAt>>
       \/ /\ ~outDirExists
          /\ UNCHANGED outDirExists
          /\ Raise("mkdir", Exc("OSError", "cannot create directory", "src-tauri/icons"), "except")
    /\ UNCHANGED <<srcFs, outFiles, iconset, iconsetFiles, argv, source_path, image,
                   printed, exitCode, written, history>>

LoadAndValidate_SkipLinux ==
    /\ pc = "load"
    /\ Step("load")
    /\ IF srcFs[source_path].decodable
       THEN LET v == validate_image(Decode(source_path, srcFs[source_path])) IN
            /\ image' = v.raster
            /\ printed' = IF v.warned
                          THEN Append(printed, Msg("Warning: Image is not 1024x1024. Auto-resizing...", NoExc))
                          ELSE printed
            /\ pc' = "windows"
            /\ UNCHANGED <<exc, raisedAt>>
       ELSE /\ Raise("load", Exc("UnidentifiedImageError", "cannot identify image file", source_path), "except")
            /\ UNCHANGED <<image, printed>>
    /\ UNCHANGED <<srcFs, fs, argv, source_path, exitCode, written, history>>

\* with Image.open(source) as img: image = validate_image(img.convert("RGBA"))
LoadAndValidate ==
    /\ pc = "load"
    /\ Step("load")
    /\ IF srcFs[source_path].decodable
       THEN LET v == validate_image(Decode(source_path, srcFs[source_path])) IN
            /\ image' = v.raster
            /\ printed' = IF v.warned
                          THEN Append(printed, Msg("Warning: Image is not 1024x1024. Auto-resizing...", NoExc))
                          ELSE printed
            /\ pc' = "linux"
            /\ UNCHANGED <<exc, raisedAt>>
       ELSE /\ Raise("load", Exc("UnidentifiedImageError", "cannot identify image file", source_path), "except")
            /\ UNCHANGED <<image, printed>>
    /\ UNCHANGED <<srcFs, fs, argv, source_path, exitCode, written, history>>

\* The output directory after the first k entries of the Linux table are saved.
LinuxSaved(k) ==
    [n \in OutNames |->
        IF \E i \in 1..k : ICON_SIZES_linux[i][3] = n
        THEN LET i == CHOOSE j \in 1..k : ICON_SIZES_linux[j][3] = n IN
             Png(Resize(image, ICON_SIZES_linux[i][1], ICON_SIZES_linux[i][2]))
        ELSE outFiles[n]]

generate_linux_icons_DropRetina ==
    /\ pc = "linux"
    /\ Step("linux")
    /\ \E k \in 0..Len(ICON_SIZES_linux) :
        /\ outFiles' = [LinuxSaved(k) EXCEPT !["128x128@2x.png"] = outFiles["128x128@2x.png"]]
        /\ written' = written \cup {<<"out", ICON_SIZES_linux[i][3]>> : i \in (1..k) \ {3}}
        /\ IF k = Len(ICON_SIZES_linux)
           THEN /\ pc' = "windows"
                /\ UNCHANGED <<exc, raisedAt>>
           ELSE Raise("linux", Exc("OSError", "cannot write file", ICON_SIZES_linux[k + 1][3]), "except")
    /\ UNCHANGED <<srcFs, outDirExists, iconset, iconsetFiles, argv, source_path, image,
                   printed, exitCode, history>>

\* generate_linux_icons: the loop saves the entries in table order; the save
\* of entry k + 1 may raise, leaving the first k files written.
generate_linux_icons ==
    /\ pc = "linux"
    /\ Step("linux")
    /\ \E k \in 0..Len(ICON_SIZES_linux) :
        /\ outFiles' = LinuxSaved(k)
        /\ written' = written \cup {<<"out", ICON_SIZES_linux[i][3]>> : i \in 1..k}
        /\ IF k = Len(ICON_SIZES_linux)
           THEN /\ pc' = "windows"
                /\ UNCHANGED <<exc, raisedAt>>
           ELSE Raise("linux", Exc("OSError", "cannot write file", ICON_SIZES_linux[k + 1][3]), "except")
    /\ UNCHANGED <<srcFs, outDirExists, iconset, iconsetFiles, argv, source_path, image,
                   printed, exitCode, history>>

\* ico_images: the raster resized to every entry of the Windows table, in
\* table order; ico_images[0] is saved with the rest appended.
ico_images ==
    [i \in DOMAIN ICON_SIZES_windows |->
        Resize(image, ICON_SIZES_windows[i][1], ICON_SIZES_windows[i][2])]

\* generate_windows_icon: icon.ico is written, or the save raises.  The ICO
\* encoder is an external collaborator, taken to write the frames it is given.
generate_windows_icon ==
    /\ pc = "windows"
    /\ Step("windows")
    /\ \/ /\ outFiles' = [outFiles EXCEPT !["icon.ico"] = IcoFile(ico_images)]
          /\ written' = written \cup {<<"out", "icon.ico">>}
          /\ pc' = "mac_mkdir"
          /\ UNCHANGED <<exc, raisedAt>>
       \/ /\ Raise("windows", Exc("OSError", "cannot write file", "icon.ico"), "except")
          /\ UNCHANGED <<outFiles, written>>
    /\ UNCHANGED <<srcFs, outDirExists, iconset, iconsetFiles, argv, source_path, image,
                   printed, exitCode, history>>

\* ---------------------------------------------------- generate_macos_icon
\* iconset_dir.mkdir(exist_ok=True), before the try block: an existing
\* directory is accepted with whatever it holds, a regular file of that name
\* raises FileExistsError, and creating a missing directory may fail.
MacMkdir ==
    /\ pc = "mac_mkdir"
    /\ Step("macos")
    /\ \/ /\ iconset \in {"absent", "dir"}
          /\ iconset' = "dir"
          /\ pc' = "mac_stage"
          /\ UNCHANGED <<exc, raisedAt>>
       \/ /\ iconset = "absent"
          /\ UNCHANGED iconset
          /\ Raise("mac_mkdir", Exc("OSError", "cannot create directory", "icon.iconset"), "except")
       \/ /\ iconset = "file"
          /\ UNCHANGED iconset
          /\ Raise("mac_mkdir", Exc("FileExistsError", "file exists", "icon.iconset"), "except")
    /\ UNCHANGED <<srcFs, outDirExists, outFiles, iconsetFiles, argv, source_path, image,
                   printed, exitCode, written, history>>

\* The staging directory after the first k entries of the macOS table are saved.
MacStaged(k) ==
    [n \in StageNames |->
        IF \E i \in 1..k : ICON_SIZES_macos[i][1] = n
        THEN LET i == CHOOSE j \in 1..k : ICON_SIZES_macos[j][1] = n IN
             Png(Resize(image, ICON_SIZES_macos[i][2], ICON_SIZES_macos[i][2]))
        ELSE iconsetFiles[n]]

\* Stage (lines 69-71): the loop saves the entries in table order; the save
\* of entry k + 1 may raise, leaving the first k files staged.
MacStage ==
    /\ pc = "mac_stage"
    /\ Step("mac_stage")
    /\ \E k \in 0..Len(ICON_SIZES_macos) :
        /\ iconsetFiles' = MacStaged(k)
        /\ written' = written \cup {<<"iconset", ICON_SIZES_macos[i][1]>> : i \in 1..k}
        /\ IF k = Len(ICON_SIZES_macos)
           THEN /\ pc' = "mac_pack"
                /\ UNCHANGED <<exc, raisedAt>>
           ELSE Raise("mac_stage", Exc("OSError", "cannot write file", ICON_SIZES_macos[k + 1][1]), "mac_except")
    /\ UNCHANGED <<srcFs, outDirExists, outFiles, iconset, argv, source_path, image,
                   printed, exitCode, history>>

\* iconset_dir.glob("*.png"): every PNG the staging directory holds.
Glob == {n \in StageNames : iconsetFiles[n].kind = "png"}

\* The representations add_media collects: one per globbed file.
Media == {[file |-> n, data |-> iconsetFiles[n].frames[1]] : n \in Glob}

MacPack_OutsideTry ==
    /\ pc = "mac_pack"
    /\ Step("mac_pack")
    /\ \/ /\ outFiles' = [outFiles EXCEPT !["icon.icns"] = IcnsFile(Media)]
          /\ written' = written \cup {<<"out", "icon.icns">>}
          /\ pc' = "mac_finally"
          /\ UNCHANGED <<exc, raisedAt>>
       \/ /\ Raise("mac_pack", Exc("IcnsError", "cannot pack", "icon.icns"), "except")
          /\ UNCHANGED <<outFiles, written>>
    /\ UNCHANGED <<srcFs, outDirExists, iconset, iconsetFiles, argv, source_path, image,
                   printed, exitCode, history>>

\* Pack (lines 74-77): every globbed file is added and icon.icns written, or
\* add_media or write raises.
MacPack ==
    /\ pc = "mac_pack"
    /\ Step("mac_pack")
    /\ \/ /\ outFiles' = [outFiles EXCEPT !["icon.icns"] = IcnsFile(Media)]
          /\ written' = written \cup {<<"out", "icon.icns">>}
          /\ pc' = "mac_finally"
          /\ UNCHANGED <<exc, raisedAt>>
       \/ /\ Raise("mac_pack", Exc("IcnsError", "cannot pack", "icon.icns"), "mac_except")
          /\ UNCHANGED <<outFiles, written>>
    /\ UNCHANGED <<srcFs, outDirExists, iconset, iconsetFiles, argv, source_path, image,
                   printed, exitCode, history>>

MacExcept_Swallow ==
    /\ pc = "mac_except"
    /\ Step("mac_log")
    /\ printed' = Append(printed, Msg("Error generating .icns", exc))
    /\ exc' = NoExc
    /\ pc' = "mac_finally"
    /\ UNCHANGED <<srcFs, fs, argv, source_path, image, exitCode, raisedAt, written, history>>

\* except Exception as e: print the error, then re-raise it.
MacExcept ==
    /\ pc = "mac_except"
    /\ Step("mac_log")
    /\ printed' = Append(printed, Msg("Error generating .icns", exc))
    /\ pc' = "mac_finally"
    /\ UNCHANGED <<srcFs, fs, argv, source_path, image, exc, exitCode, raisedAt, written, history>>

MacFinally_OnSuccessOnly ==
    /\ pc = "mac_finally"
    /\ Step("mac_cleanup")
    /\ IF exc = NoExc
       THEN /\ iconset' = "absent"
            /\ iconsetFiles' = EmptyStage
       ELSE UNCHANGED <<iconset, iconsetFiles>>
    /\ pc' = IF exc = NoExc THEN "report" ELSE "except"
    /\ UNCHANGED <<srcFs, outDirExists, outFiles, argv, source_path, image, exc, printed,
                   exitCode, raisedAt, written, history>>

\* finally: shutil.rmtree(iconset_dir, ignore_errors=True) removes the
\* directory and what it holds; then the function returns, or the exception
\* in flight goes on to the caller.  A removal that fails, which
\* ignore_errors=True would hide, is not modelled.
MacFinally ==
    /\ pc = "mac_finally"
    /\ Step("mac_cleanup")
    /\ iconset' = "absent"
    /\ iconsetFiles' = EmptyStage
    /\ pc' = IF exc = NoExc THEN "report" ELSE "except"
    /\ UNCHANGED <<srcFs, outDirExists, outFiles, argv, source_path, image, exc, printed,
                   exitCode, raisedAt, written, history>>

\* ------------------------------------------------- generate_icons, the end
\* print("All icons generated successfully!"); the script ends with status 0.
ReportSuccess ==
    /\ pc = "report"
    /\ Step("success")
    /\ printed' = Append(printed, Msg("All icons generated successfully!", NoExc))
    /\ exitCode' = 0
    /\ pc' = "done"
    /\ UNCHANGED <<srcFs, fs, argv, source_path, image, exc, raisedAt, written, history>>

\* except Exception as e: sys.exit("Error: ..."): the message is printed and
\* the process exits with status 1.
TopExcept ==
    /\ pc = "except"
    /\ Step("exit")
    /\ printed' = Append(printed, Msg("Error", exc))
    /\ exitCode' = 1
    /\ pc' = "exited"
    /\ UNCHANGED <<srcFs, fs, argv, source_path, image, exc, raisedAt, written, history>>

\* The program is invoked again on the filesystem the last invocation left.
NextRun ==
    /\ pc \in {"done", "exited"}
    /\ runs < MaxRuns
    /\ pc' = "start"
    /\ argv' = NoArg
    /\ source_path' = ""
    /\ image' = NoRaster
    /\ exc' = NoExc
    /\ printed' = <<>>
    /\ exitCode' = -1
    /\ trace' = <<>>
    /\ raisedAt' = "none"
    /\ written' = {}
    /\ startFs' = fs
    /\ prevOk' = (exitCode = 0)
    /\ UNCHANGED <<srcFs, fs, runs>>

Next ==
    \/ Main
    \/ CheckSource
    \/ MkdirOutput
    \/ LoadAndValidate
    \/ generate_linux_icons
    \/ generate_windows_icon
    \/ MacMkdir
    \/ MacStage
    \/ MacPack
    \/ MacExcept
    \/ MacFinally
    \/ ReportSuccess
    \/ TopExcept
    \/ NextRun

Spec == Init /\ [][Next]_vars

\* ------------------------------------------------------------- properties
Count(tag) == Cardinality({i \in DOMAIN printed : printed[i].tag = tag})
Started(step) == \E i \in DOMAIN trace : trace[i] = step
Pos(step) == CHOOSE i \in DOMAIN trace : trace[i] = step
Ended == pc \in {"done", "exited"}
IsPrefix(a, b) == Len(a) <= Len(b) /\ \A i \in DOMAIN a : a[i] = b[i]
StepOrder == <<"check", "mkdir", "load", "linux", "windows", "macos", "success">>
IsTopStep(s) == \E i \in DOMAIN StepOrder : StepOrder[i] = s
TopSteps == SelectSeq(trace, IsTopStep)
TopOf(step) == IF step \in {"mac_mkdir", "mac_stage", "mac_pack"} THEN "macos" ELSE step
InsideTry == raisedAt \in {"mac_stage", "mac_pack"}
StillExists(f) ==
    IF f[1] = "out"
    THEN outFiles[f[2]].kind # "none"
    ELSE iconset = "dir" /\ iconsetFiles[f[2]].kind # "none"
Decoded == Decode(source_path, srcFs[source_path])
AtGenerator == pc \in {"linux", "windows", "mac_mkdir", "mac_stage", "mac_pack"}

C2_MissingSourceNoOutput ==
    (pc \notin {"start", "check"} /\ ~srcFs[source_path].exists) =>
        /\ pc \in {"except", "exited"}
        /\ exc = Exc("FileNotFoundError", "Source file not found", source_path)
        /\ fs = startFs
        /\ written = {}
        /\ TopSteps = <<"check">>
        /\ pc = "exited" => (exitCode # 0 /\ printed = <<Msg("Error", exc)>>)

C2_Witness ==
    /\ pc = "exited"
    /\ ~srcFs[source_path].exists
    /\ ~outDirExists

\* C3: when a run in which no step raised finishes, the output directory
\* holds the seven artifacts, nothing else the run wrote still exists, the
\* success message is printed and the exit status is zero.
C3_SevenArtifacts ==
    pc = "done" =>
        /\ outDirExists
        /\ \A n \in LinuxNames : outFiles[n].kind = "png"
        /\ outFiles["icon.ico"].kind = "ico"
        /\ outFiles["icon.icns"].kind = "icns"
        /\ \A f \in written : StillExists(f) => (f[1] = "out" /\ f[2] \in Artifacts)
        /\ printed[Len(printed)] = Msg("All icons generated successfully!", NoExc)
        /\ exitCode = 0

C3_Witness ==
    /\ pc = "done"
    /\ ~startFs[1]
    /\ Decoded.w # CANON
    /\ Cardinality(written) = Cardinality(Artifacts) + Cardinality(MacNames)

\* C4 (as stated): an exception at any step ends the process non-zero with
\* exactly one error message printed for the run, no success message, no
\* later step and no retry.
C4_ExactlyOneMessage ==
    pc = "exited" =>
        /\ exitCode # 0
        /\ Count("Error") + Count("Error generating .icns") = 1
        /\ Count("All icons generated successfully!") = 0

\* C4 (amended): an exception at any step ends the process with status 1 and
\* exactly one top-level 'Error' message, preceded by one 'Error generating
\* .icns' message exactly when it was raised inside generate_macos_icon's try
\* block; no success message, no later step, no retry.
C4_ErrorExit ==
    /\ raisedAt # "none" =>
          /\ pc \in {"mac_except", "mac_finally", "except", "exited"}
          /\ exc # NoExc
          /\ ~Started("success")
          /\ Count("All icons generated successfully!") = 0
          /\ TopSteps[Len(TopSteps)] = TopOf(raisedAt)
          /\ \A i, j \in DOMAIN trace : trace[i] = trace[j] => i = j
    /\ pc = "exited" =>
          /\ raisedAt # "none"
          /\ exitCode = 1
          /\ Count("Error") = 1
          /\ printed[Len(printed)] = Msg("Error", exc)
          /\ Count("Error generating .icns") = (IF InsideTry THEN 1 ELSE 0)

C4_Witness ==
    /\ pc = "exited"
    /\ raisedAt = "mac_pack"
    /\ Count("Error generating .icns") = 1
    /\ Count("Error") = 1

\* C5: the path given on the command line is the one that is loaded; the
\* default icon.png is used only when no argument is given.
C5_ArgumentIsLoaded ==
    pc # "start" => source_path = (IF argv = NoArg THEN DEFAULT_SOURCE ELSE argv)

\* C6: every generator is handed a 1024x1024 raster normalised before the
\* first generator starts; an already 1024x1024 source is returned unchanged
\* without a warning, and validating the result again changes nothing.
C6_CanonicalRaster ==
    AtGenerator =>
        /\ image.w = CANON /\ image.h = CANON
        /\ image.src = source_path
        /\ (Decoded.w = CANON /\ Decoded.h = CANON) =>
              (image = Decoded /\ Count("Warning: Image is not 1024x1024. Auto-resizing...") = 0)
        /\ (Decoded.w # CANON \/ Decoded.h # CANON) =>
              (image # Decoded /\ Count("Warning: Image is not 1024x1024. Auto-resizing...") = 1)
        /\ validate_image(image) = [raster |-> image, warned |-> FALSE]

C6_Witness ==
    /\ pc = "linux"
    /\ Decoded.w = CANON
    /\ Decoded.h # CANON
    /\ image.hist = << <<CANON, CANON>> >>

\* C7: whatever the output directory held before, a successful run builds
\* icon.ico from the five frames 16, 32, 48, 64, 256 smallest first and
\* icon.icns from exactly the ten representations of the macOS table.
C7_ExactContainers ==
    pc = "done" =>
        /\ outFiles["icon.ico"].frames =
              [i \in DOMAIN ICON_SIZES_windows |->
                  Resize(image, ICON_SIZES_windows[i][1], ICON_SIZES_windows[i][2])]
        /\ Cardinality(outFiles["icon.icns"].reps) = Len(ICON_SIZES_macos)
        /\ {r.file : r \in outFiles["icon.icns"].reps} = MacNames

\* C8: after a second successful run in a row on the same source the output
\* directory is in the state the first successful run left.
C8_SecondRunSameState ==
    (pc = "done" /\ prevOk) => fs = startFs

C10_StepOrder ==
    /\ IsPrefix(TopSteps, StepOrder)
    /\ raisedAt # "none" => TopSteps[Len(TopSteps)] = TopOf(raisedAt)
    /\ Started("load") => outDirExists
    /\ Started("linux") => (image # NoRaster /\ image.src = source_path)
    /\ Started("success") =>
          /\ TopSteps = StepOrder
          /\ raisedAt = "none"
          /\ Started("mac_cleanup")

C10_Witness ==
    /\ pc = "done"
    /\ TopSteps = StepOrder
    /\ runs = 2

====
